---- MODULE Spec2Model ----
(***************************************************************************)
(* Model of the JBD BMS transaction engine (src/src/jbdbms.cpp).           *)
(*                                                                         *)
(* Memory is modelled as sequences of bytes.  The host is little-endian    *)
(* (every Arduino target is), so a uint16_t whose memory bytes are <<a,b>> *)
(* has the value a + 256*b.  jbdbms.h is not part of the sources: the      *)
(* struct layouts, the protocol constants and swap() follow the spec.      *)
(***************************************************************************)
EXTENDS Integers, Sequences, FiniteSets, TLC

VARIABLES
    time,        \* milliseconds of real time elapsed since boot (unbounded)
    now,         \* value of millis(): uint32_t, wraps
    prev,        \* *_prev, the shared last-transaction timestamp (uint32_t)
    prevAt,      \* real time at which *_prev was last written by execute, -1 if never
    _delay,      \* per instance: command_delay_ms (uint8_t)
    _dir_pin,    \* per instance: direction pin, -1 if none
    _serial_cb,  \* per instance: TRUE iff a frame observer is set
    pinLevel,    \* level of the direction pin: 0 = LOW, 1 = HIGH (either before begin)
    pc,          \* position of the running call, "idle" if none
    self,        \* instance running the call
    op,          \* public operation running
    header,      \* request_header_t of the call
    command,     \* pointer to the request payload
    result,      \* pointer to the caller's result buffer
    data0,       \* content of the caller's buffer when the call was made
    crc,         \* execute local: uint16_t crc
    stop,        \* execute local: uint8_t stop
    rc,          \* execute local: bool rc
    rhdr,        \* execute local: response_header_t header, as its 3 bytes
    io,          \* externally visible events of the running call, in order
    ret,         \* value returned by the last call, "none" while it runs
    calls,       \* number of calls made
    arg,         \* argument of the running public operation (mosfet_t status), else 0
    balanceStr,  \* balance: static char balanceStr[33], 0 is the terminator
    pure         \* last direct call of balance or genCrc: its inputs and its result

vars == <<time, now, prev, prevAt, _delay, _dir_pin, _serial_cb, pinLevel, pc, self, op,
          header, command, result, data0, crc, stop, rc, rhdr, io, ret, calls,
          arg, balanceStr, pure>>

cfgVars == <<_delay, _dir_pin, _serial_cb>>
clockVars == <<time, now>>
frameVars == <<self, op, header, command, data0, calls, arg>>
pureVars == <<balanceStr, pure>>

-----------------------------------------------------------------------------
(* Fixed-width integers *)

U8(x) == x % 256
U16(x) == x % 65536

(* uint32_t: a value v is the pair <<v \div 65536, v % 65536>> of its 16-bit halves *)
U32(n) == <<(n \div 65536) % 65536, n % 65536>>
Add32(a, b) == <<(a[1] + b[1] + ((a[2] + b[2]) \div 65536)) % 65536, (a[2] + b[2]) % 65536>>
Sub32(a, b) ==
    <<(a[1] - b[1] - (IF a[2] < b[2] THEN 1 ELSE 0)) % 65536, (a[2] - b[2]) % 65536>>
Le32(a, b) == a[1] < b[1] \/ (a[1] = b[1] /\ a[2] <= b[2])

(* Pointers: NULL, or the memory pointed to *)
NULL == [ok |-> FALSE, mem |-> <<>>]
Ptr(m) == [ok |-> TRUE, mem |-> m]

(* Protocol constants *)
START == 221
STOP == 119
MaxResponseLen == 64
READ == 165
WRITE == 90
STATUS == 3
CELLS == 4
HARDWARE == 5
MOSFET == 225
MOSFET_BOTH == 3

Instances == {1, 2}

(* The bytes of a uint16_t in memory, and the value of two bytes of memory *)
Bytes16(v) == <<v % 256, v \div 256>>
Value16(m) == m[1] + 256 * m[2]

(* memcpy / readBytes of the first k bytes of src over dst *)
Overwrite(dst, src, k) == [i \in 1..Len(dst) |-> IF i <= k THEN src[i] ELSE dst[i]]

-----------------------------------------------------------------------------
(* Checksum and frame codec *)

\* swap(uint16_t *): exchange the two bytes, return the new value
swap(v) == (v % 256) * 256 + (v \div 256)

\* sum of bytes i..j of mem (the range is split in halves to keep the
\* evaluation shallow)
RECURSIVE SumBytes(_, _, _)
SumBytes(mem, i, j) ==
    IF i > j THEN 0
    ELSE IF i = j THEN mem[i]
    ELSE SumBytes(mem, i, (i + j) \div 2) + SumBytes(mem, (i + j) \div 2 + 1, j)

\* while( len-- ) crc -= *(data++);   on a uint16_t: subtracting byte by byte
\* with wraparound is subtracting the sum modulo 2^16
CrcLoop(acc, mem, len) == U16(acc - SumBytes(mem, 1, len))

genCrcOffByOne(byte, len, data) ==
    LET acc == IF len <= 31 /\ (len = 0 \/ data.ok)
               THEN CrcLoop(U16(U16(0 - byte) - len), data.mem, len)
               ELSE 0
    IN  swap(acc)

genCrc(byte, len, data) ==
    LET acc == IF len < 31 /\ (len = 0 \/ data.ok)
               THEN CrcLoop(U16(U16(0 - byte) - len), data.mem, len)
               ELSE 0
    IN  swap(acc)

genRequestCrcNoSeed(h, data) == genCrc(0, h.length, data)

genRequestCrc(h, data) == genCrc(h.command, h.length, data)

RespHeader(m) == [start |-> m[1], returncode |-> m[2], length |-> m[3]]

genResponseCrc(h, data) == genCrc(h.returncode, h.length, data)

isValid(h, data, c) == genResponseCrc(h, data) = c

\* prepareCmd: sets header.start and crc, returns crc != 0
prepareCmd(h, data) ==
    LET c == genRequestCrc(h, data)
    IN  [header |-> [h EXCEPT !.start = START], crc |-> c, ok |-> c # 0]

RequestBytes(h) == <<h.start, h.command, h.code, h.length>>

-----------------------------------------------------------------------------
(* Data-model codecs *)

\* swap(&field) on the uint16_t field at byte offset off of a record
swapField(mem, off) ==
    LET v == Bytes16(swap(Value16(<<mem[off + 1], mem[off + 2]>>)))
    IN  [mem EXCEPT ![off + 1] = v[1], ![off + 2] = v[2]]

\* swap(&field) on each of the (disjoint) fields at the offsets offs
swapFields(mem, offs) ==
    [i \in 1..Len(mem) |->
        IF \E k \in 1..Len(offs) : i \in {offs[k] + 1, offs[k] + 2}
        THEN LET off == offs[CHOOSE k \in 1..Len(offs) : i \in {offs[k] + 1, offs[k] + 2}]
             IN  swapField(mem, off)[i]
        ELSE mem[i]]

\* Status_t: voltage, current, remainingCapacity, nominalCapacity, cycles,
\* productionDate, balanceLow, balanceHigh, fault (2 bytes each), then the
\* single-byte fields version, currentCapacity, mosfetStatus, cells, ntcs
StatusWords == <<0, 2, 4, 6, 8, 10, 12, 14, 16>>
StatusBytes == <<18, 19, 20, 21, 22>>

\* Cells_t: uint16_t voltages[32]
CellWords == [i \in 1..32 |-> 2 * (i - 1)]

decodeStatusUnsignedOnly(mem) == swapFields(mem, <<0, 4, 6, 8, 10, 12, 14, 16>>)

\* the conversions getStatus and getCells apply after execute returns
decodeStatus(mem) == swapFields(mem, StatusWords)
decodeCells(mem) == swapFields(mem, CellWords)

\* static char balanceStr[33];
BalanceStrSize == 33

\* balanceBits >>= 1;   on a uint32_t
Shr1(b) == <<b[1] \div 2, (b[1] % 2) * 32768 + b[2] \div 2>>

RECURSIVE balanceCharsNoShift(_, _)
balanceCharsNoShift(balanceBits, cell) ==
    IF cell = 0 THEN <<>>
    ELSE <<IF balanceBits[2] % 2 = 1 THEN 49 ELSE 48>>
         \o balanceCharsNoShift(balanceBits, cell - 1)

\* while(cell--) { *(balancePtr++) = (balanceBits & 1) ? '1' : '0'; balanceBits >>= 1; }
\* the characters the loop writes: '1' is 49, '0' is 48
RECURSIVE balanceChars(_, _)
balanceChars(balanceBits, cell) ==
    IF cell = 0 THEN <<>>
    ELSE <<IF balanceBits[2] % 2 = 1 THEN 49 ELSE 48>>
         \o balanceChars(Shr1(balanceBits), cell - 1)

\* balance(data): the content of balanceStr after the call, buf before it
balanceBuffer(buf, data) ==
    LET balanceBits == <<data.balanceHigh, data.balanceLow>>
        cell == IF data.cells < BalanceStrSize THEN data.cells ELSE BalanceStrSize - 1
        chars == balanceChars(balanceBits, cell)
    IN  [i \in 1..BalanceStrSize |->
            IF i <= cell THEN chars[i] ELSE IF i = cell + 1 THEN 0 ELSE buf[i]]

\* the C string in a buffer: the characters before the first terminator
CStr(buf) ==
    IF \E i \in 1..Len(buf) : buf[i] = 0
    THEN SubSeq(buf, 1, (CHOOSE i \in 1..Len(buf) : buf[i] = 0 /\ \A j \in 1..(i - 1) : buf[j] # 0) - 1)
    ELSE buf

-----------------------------------------------------------------------------
(* Inputs of the model *)

Ev(k, b, n) == [k |-> k, b |-> b, n |-> n]

PatByte(p, i) ==
    CASE p = "zero" -> 0
      [] p = "init" -> (3 * i + 1) % 256
      [] p = "ramp" -> (7 * i + 3) % 256
      [] p = "volt" -> IF i = 1 THEN 11 ELSE IF i = 2 THEN 184
                       ELSE IF i % 2 = 1 THEN 255 ELSE 56
      [] p = "ff"   -> 255

Pattern(p, n) == [i \in 1..n |-> PatByte(p, i)]

\* the checksum the device puts in a response: 0 - status - length - payload
\* bytes, 16 bit, high byte first on the wire
DeviceCrc(status, payload) ==
    swap(CrcLoop(U16(U16(0 - status) - Len(payload)), payload, Len(payload)))

\* checksum field values a response may carry, as read into a uint16_t
CrcField(kind, good) ==
    CASE kind = "good" -> good
      [] kind = "zero" -> 0
      [] kind = "lo"   -> Value16(<<U8(Bytes16(good)[1] + 1), Bytes16(good)[2]>>)

Req(cmd, code, len) == [start |-> 0, command |-> cmd, code |-> code, length |-> len]

DataMaxTime == 1
DataMaxCalls == 1
MaxTime == 5
MaxCalls == 2
MaxBalanceCalls == 2
PinMaxTime == 1
PinMaxCalls == 2
MaxGenLen == 32

\* Status_t records handed to balance: the three fields it reads
StatusRecords ==
    [cells : {0, 4, 31, 32, 33, 255}, balanceLow : {5, 32769, 65535},
     balanceHigh : {0, 1, 32768}]

\* no direct call of balance or genCrc made yet
NoCall ==
    [fn |-> "none", byte |-> 0, len |-> 0, data |-> NULL,
     status |-> [cells |-> 0, balanceLow |-> 0, balanceHigh |-> 0], crc |-> 0]

DataRequests ==
    { [header |-> Req(READ, STATUS, 0), command |-> NULL, result |-> Ptr(Pattern("init", 64))],
      [header |-> Req(READ, STATUS, 0), command |-> NULL, result |-> NULL],
      [header |-> Req(WRITE, MOSFET, 2), command |-> Ptr(<<0, 2>>), result |-> NULL],
      [header |-> Req(WRITE, MOSFET, 2), command |-> NULL, result |-> NULL],
      [header |-> Req(WRITE, MOSFET, 30), command |-> Ptr(Pattern("ramp", 30)), result |-> NULL],
      [header |-> Req(WRITE, MOSFET, 31), command |-> Ptr(Pattern("ramp", 31)), result |-> NULL],
      [header |-> Req(0, STATUS, 0), command |-> NULL, result |-> Ptr(Pattern("init", 64))] }

DataHeaders ==
    { <<START, 0, 0>>, <<START, 0, 2>>, <<START, 0, 23>>, <<START, 0, 30>>,
      <<START, 0, 31>>, <<START, 0, 64>>, <<START, 0, 65>>,
      <<START, 128, 0>>, <<START, 128, 23>>, <<START, 1, 31>>,
      <<0, 0, 0>>, <<0, 0, 23>> }

DataEnv ==
    [ inst |-> {1}, boots |-> {U32(0)}, prevs |-> {U32(0)}, levels |-> {0},
      delays |-> {<<2, 2>>}, pins |-> {-1, 4},
      cbs |-> BOOLEAN,
      maxTime |-> DataMaxTime, maxCalls |-> DataMaxCalls,
      requests |-> DataRequests, records |-> {Pattern("init", 64)},
      mosfets |-> 0..3, writes |-> 0..4,
      hdrs |-> DataHeaders, hdrCounts |-> {0, 2, 3},
      pats |-> {"ramp", "volt"}, short |-> {0, 1},
      crcs |-> {"good", "zero", "lo"}, crcCounts |-> {1, 2},
      stops |-> {STOP, 0}, stopCounts |-> {0, 1}, garbage |-> {0, 238} ]

PacingEnv ==
    [ inst |-> Instances, boots |-> {U32(0), <<65535, 65534>>},
      prevs |-> {U32(0), <<65535, 65535>>}, levels |-> {0}, delays |-> {<<1, 3>>},
      pins |-> {-1}, cbs |-> {FALSE},
      maxTime |-> MaxTime, maxCalls |-> MaxCalls,
      requests |->
        { [header |-> Req(READ, STATUS, 0), command |-> NULL, result |-> Ptr(Pattern("init", 64))],
          [header |-> Req(WRITE, MOSFET, 2), command |-> NULL, result |-> NULL] },
      records |-> {Pattern("init", 64)},
      mosfets |-> {1}, writes |-> {3, 4},
      hdrs |-> { <<START, 0, 2>> }, hdrCounts |-> {0, 3},
      pats |-> {"volt"}, short |-> {0},
      crcs |-> {"good", "zero"}, crcCounts |-> {2},
      stops |-> {STOP}, stopCounts |-> {1}, garbage |-> {0} ]

\* the direction pin at either level before begin, and a call of every outcome
PinEnv ==
    [ inst |-> {1}, boots |-> {U32(0)}, prevs |-> {U32(0)}, levels |-> {0, 1},
      delays |-> {<<2, 2>>}, pins |-> {-1, 4}, cbs |-> {FALSE},
      maxTime |-> PinMaxTime, maxCalls |-> PinMaxCalls,
      requests |->
        { [header |-> Req(READ, STATUS, 0), command |-> NULL, result |-> Ptr(Pattern("init", 64))],
          [header |-> Req(WRITE, MOSFET, 2), command |-> NULL, result |-> NULL] },
      records |-> {Pattern("init", 64)},
      mosfets |-> {1}, writes |-> {0, 2, 4},
      hdrs |-> { <<START, 0, 0>>, <<START, 0, 2>>, <<START, 128, 0>>, <<0, 0, 0>> },
      hdrCounts |-> {0, 3},
      pats |-> {"volt"}, short |-> {0, 1},
      crcs |-> {"good", "zero"}, crcCounts |-> {1, 2},
      stops |-> {STOP}, stopCounts |-> {0, 1}, garbage |-> {0} ]

-----------------------------------------------------------------------------
(* State after construction: JbdBms(serial, prev, command_delay_ms) for every
   instance, all with the same prev pointer *)

InitEnv(E) ==
    /\ time = 0
    /\ now \in E.boots
    /\ prev \in E.prevs \cup {now}
    /\ prevAt = -1
    /\ _delay \in E.delays
    /\ _dir_pin = [i \in Instances |-> -1]
    /\ _serial_cb = [i \in Instances |-> FALSE]
    /\ pinLevel \in E.levels
    /\ pc = "idle"
    /\ self = 1
    /\ op = "none"
    /\ header = Req(0, 0, 0)
    /\ command = NULL
    /\ result = NULL
    /\ data0 = <<>>
    /\ crc = 0
    /\ stop = STOP
    /\ rc = FALSE
    /\ rhdr = <<0, 0, 0>>
    /\ io = <<>>
    /\ ret = "none"
    /\ calls = 0
    /\ arg = 0
    /\ balanceStr = [i \in 1..BalanceStrSize |-> 0]
    /\ pure = NoCall

-----------------------------------------------------------------------------
(* The clock *)

\* time passes at any point of a call, except between the last statement of
\* execute (*_prev = millis()) and its return
Tick(E) ==
    /\ pc \notin {"crashed", "return"}
    /\ time < E.maxTime
    /\ time' = time + 1
    /\ now' = Add32(now, U32(1))
    /\ UNCHANGED <<pureVars, prev, prevAt, cfgVars, pinLevel, pc, frameVars, result, crc, stop, rc,
                   rhdr, io, ret>>

-----------------------------------------------------------------------------
(* Configuration *)

setSerialCb(E) ==
    \E i \in E.inst, cb \in E.cbs :
        /\ pc = "idle"
        /\ _serial_cb' = [_serial_cb EXCEPT ![i] = cb]
        /\ UNCHANGED <<pureVars, clockVars, prev, prevAt, _delay, _dir_pin, pinLevel, pc, frameVars,
                       result, crc, stop, rc, rhdr, io, ret>>

beginNoWrite(E) ==
    \E i \in E.inst, dir_pin \in E.pins :
        /\ pc = "idle"
        /\ _dir_pin' = [_dir_pin EXCEPT ![i] = dir_pin]
        /\ UNCHANGED <<pureVars, clockVars, prev, prevAt, _delay, _serial_cb, pc, frameVars,
                       result, crc, stop, rc, rhdr, io, ret, pinLevel>>

begin(E) ==
    \E i \in E.inst, dir_pin \in E.pins :
        /\ pc = "idle"
        /\ _dir_pin' = [_dir_pin EXCEPT ![i] = dir_pin]
        /\ pinLevel' = IF dir_pin >= 0 THEN 0 ELSE pinLevel
        /\ UNCHANGED <<pureVars, clockVars, prev, prevAt, _delay, _serial_cb, pc, frameVars,
                       result, crc, stop, rc, rhdr, io, ret>>

-----------------------------------------------------------------------------
(* Entry of the public operations: each builds its request and enters execute *)

Enter(i, o, h, cmd, res, a) ==
    /\ calls' = calls + 1
    /\ arg' = a
    /\ self' = i
    /\ op' = o
    /\ header' = h
    /\ command' = cmd
    /\ result' = res
    /\ data0' = res.mem
    /\ crc' = 0
    /\ stop' = STOP
    /\ rc' = FALSE
    /\ rhdr' = <<0, 0, 0>>
    /\ io' = <<>>
    /\ ret' = "none"
    /\ pc' = "prepare"
    /\ UNCHANGED <<pureVars, clockVars, prev, prevAt, cfgVars, pinLevel>>

execute(E) ==
    \E i \in E.inst, r \in E.requests :
        /\ pc = "idle"
        /\ calls < E.maxCalls
        /\ Enter(i, "execute", r.header, r.command, r.result, 0)

getStatus(E) ==
    \E i \in E.inst, d \in E.records :
        /\ pc = "idle"
        /\ calls < E.maxCalls
        /\ Enter(i, "getStatus", Req(READ, STATUS, 0), NULL, Ptr(d), 0)

getCells(E) ==
    \E i \in E.inst, d \in E.records :
        /\ pc = "idle"
        /\ calls < E.maxCalls
        /\ Enter(i, "getCells", Req(READ, CELLS, 0), NULL, Ptr(d), 0)

getHardware(E) ==
    \E i \in E.inst, d \in E.records :
        /\ pc = "idle"
        /\ calls < E.maxCalls
        /\ Enter(i, "getHardware", Req(READ, HARDWARE, 0), NULL, Ptr(d), 0)

setMosfetStatusNotInverted(E) ==
    \E i \in E.inst, status \in E.mosfets :
        LET status_inv == status % (MOSFET_BOTH + 1)
        IN  /\ pc = "idle"
            /\ calls < E.maxCalls
            /\ Enter(i, "setMosfetStatus", Req(WRITE, MOSFET, 2), Ptr(<<0, status_inv>>),
                     NULL, status)

\* status_inv = ~status & MOSFET_BOTH, for status in 0..3
setMosfetStatus(E) ==
    \E i \in E.inst, status \in E.mosfets :
        LET status_inv == (255 - status) % (MOSFET_BOTH + 1)
        IN  /\ pc = "idle"
            /\ calls < E.maxCalls
            /\ Enter(i, "setMosfetStatus", Req(WRITE, MOSFET, 2), Ptr(<<0, status_inv>>),
                     NULL, status)

-----------------------------------------------------------------------------
(* execute, statement by statement *)

PrepareCmdUnchecked(E) ==
    /\ pc = "prepare"
    /\ header' = prepareCmd(header, command).header
    /\ crc' = prepareCmd(header, command).crc
    /\ pc' = "pace"
    /\ rc' = FALSE
    /\ UNCHANGED <<pureVars, clockVars, prev, prevAt, cfgVars, pinLevel, self, op, command, data0,
                   calls, arg, result, stop, rhdr, io, ret>>

\* if( !prepareCmd(header, command, crc) ) return false;
PrepareCmd(E) ==
    /\ pc = "prepare"
    /\ LET p == prepareCmd(header, command)
       IN  /\ header' = p.header
           /\ crc' = p.crc
           /\ pc' = IF p.ok THEN "pace" ELSE "return"
    /\ rc' = FALSE
    /\ UNCHANGED <<pureVars, clockVars, prev, prevAt, cfgVars, pinLevel, self, op, command, data0,
                   calls, arg, result, stop, rhdr, io, ret>>

remainingSwapped(d, millis, p) == Sub32(Sub32(millis, p), U32(d))

remainingSaturating(d, millis, p) ==
    IF Le32(p, millis) THEN Sub32(U32(d), Sub32(millis, p)) ELSE U32(d)

\* uint32_t remaining = _delay - (millis() - *_prev);
remainingOf(d, millis, p) == Sub32(U32(d), Sub32(millis, p))

\* if( remaining <= _delay ) delay(remaining);
Pace(E) ==
    /\ pc = "pace"
    /\ LET remaining == remainingOf(_delay[self], now, prev)
       IN  IF Le32(remaining, U32(_delay[self]))
           THEN /\ time' = time + remaining[2]
                /\ now' = Add32(now, remaining)
                /\ io' = Append(io, Ev("delay", <<>>, remaining[2]))
           ELSE UNCHANGED <<time, now, io>>
    /\ pc' = "dirTx"
    /\ UNCHANGED <<pureVars, prev, prevAt, cfgVars, pinLevel, frameVars, result, crc, stop, rc,
                   rhdr, ret>>

\* if( _dir_pin >= 0 ) digitalWrite(_dir_pin, HIGH);
DirTx(E) ==
    /\ pc = "dirTx"
    /\ IF _dir_pin[self] >= 0
       THEN /\ pinLevel' = 1
            /\ io' = Append(io, Ev("pin", <<>>, 1))
       ELSE UNCHANGED <<pinLevel, io>>
    /\ pc' = "flush1"
    /\ UNCHANGED <<pureVars, clockVars, prev, prevAt, cfgVars, frameVars, result, crc, stop, rc,
                   rhdr, ret>>

\* _serial.flush();  before the writes
Flush1(E) ==
    /\ pc = "flush1"
    /\ io' = Append(io, Ev("flush", <<>>, 0))
    /\ pc' = "write"
    /\ UNCHANGED <<pureVars, clockVars, prev, prevAt, cfgVars, pinLevel, frameVars, result, crc,
                   stop, rc, rhdr, ret>>

RequestPartsStopFirst(h, cmd, c, s) ==
    << RequestBytes(h),
       IF h.length = 0 THEN <<>> ELSE SubSeq(cmd.mem, 1, h.length),
       <<s>>,
       Bytes16(c) >>

\* the four parts of the request frame, as passed to _serial.write
RequestParts(h, cmd, c, s) ==
    << RequestBytes(h),
       IF h.length = 0 THEN <<>> ELSE SubSeq(cmd.mem, 1, h.length),
       Bytes16(c),
       <<s>> >>

\* the events of writing parts 1..n, the first w of them in full and the
\* next one (if any) one byte short
RECURSIVE WriteEvents(_, _, _)
WriteEvents(parts, w, n) ==
    IF n = 0 THEN <<>>
    ELSE Append(WriteEvents(parts, w, n - 1),
                Ev("write",
                   IF n <= w THEN parts[n] ELSE SubSeq(parts[n], 1, Len(parts[n]) - 1),
                   Len(parts[n])))

\* bool rc = write(header) && write(command) && write(crc) && write(stop);
\* w is the number of writes the transport completes in full
Write(E) ==
    /\ pc = "write"
    /\ \E w \in E.writes :
        LET parts == RequestParts(header, command, crc, stop)
        IN  /\ w < 4 => Len(parts[w + 1]) > 0
            /\ io' = io \o WriteEvents(parts, w, IF w < 4 THEN w + 1 ELSE 4)
            /\ rc' = (w = 4)
    /\ pc' = "flush2"
    /\ UNCHANGED <<pureVars, clockVars, prev, prevAt, cfgVars, pinLevel, frameVars, result, crc,
                   stop, rhdr, ret>>

\* _serial.flush();  after the writes
Flush2(E) ==
    /\ pc = "flush2"
    /\ io' = Append(io, Ev("flush", <<>>, 0))
    /\ pc' = "dirRx"
    /\ UNCHANGED <<pureVars, clockVars, prev, prevAt, cfgVars, pinLevel, frameVars, result, crc,
                   stop, rc, rhdr, ret>>

DirRxSkipped(E) ==
    /\ pc = "dirRx"
    /\ pc' = IF rc THEN "readHeader" ELSE "complete"
    /\ UNCHANGED <<pureVars, clockVars, prev, prevAt, cfgVars, frameVars, result, crc, stop, rc,
                   rhdr, ret, pinLevel, io>>

\* if( _dir_pin >= 0 ) digitalWrite(_dir_pin, LOW);   if( rc ) { ...
DirRx(E) ==
    /\ pc = "dirRx"
    /\ IF _dir_pin[self] >= 0
       THEN /\ pinLevel' = 0
            /\ io' = Append(io, Ev("pin", <<>>, 0))
       ELSE UNCHANGED <<pinLevel, io>>
    /\ pc' = IF rc THEN "readHeader" ELSE "complete"
    /\ UNCHANGED <<pureVars, clockVars, prev, prevAt, cfgVars, frameVars, result, crc, stop, rc,
                   rhdr, ret>>

\* the && chain of the receive step stops at its first false operand
Fail ==
    /\ rc' = FALSE
    /\ pc' = "observe"

ReadHeaderNoLengthCheck(E) ==
    /\ pc = "readHeader"
    /\ \E h \in E.hdrs, k \in E.hdrCounts :
        LET nh == RespHeader(Overwrite(rhdr, h, k))
        IN  /\ rhdr' = Overwrite(rhdr, h, k)
            /\ io' = Append(io, Ev("read", SubSeq(h, 1, k), 3))
            /\ IF k = 3 /\ nh.start = START
               THEN IF nh.length = 0 THEN pc' = "readCrc" /\ rc' = rc
                    ELSE IF result.ok THEN pc' = "readPayload" /\ rc' = rc
                    ELSE Fail
               ELSE Fail
    /\ UNCHANGED <<pureVars, clockVars, prev, prevAt, cfgVars, pinLevel, frameVars, result, crc,
                   stop, ret>>

\* readBytes(&header, sizeof(header)) == sizeof(header)
\*   && (header.start == 0xdd && header.length <= 64)
\*   && (header.length == 0 || (result && ...
ReadHeader(E) ==
    /\ pc = "readHeader"
    /\ \E h \in E.hdrs, k \in E.hdrCounts :
        LET nh == RespHeader(Overwrite(rhdr, h, k))
        IN  /\ rhdr' = Overwrite(rhdr, h, k)
            /\ io' = Append(io, Ev("read", SubSeq(h, 1, k), 3))
            /\ IF k = 3 /\ nh.start = START /\ nh.length <= MaxResponseLen
               THEN IF nh.length = 0 THEN pc' = "readCrc" /\ rc' = rc
                    ELSE IF result.ok THEN pc' = "readPayload" /\ rc' = rc
                    ELSE Fail
               ELSE Fail
    /\ UNCHANGED <<pureVars, clockVars, prev, prevAt, cfgVars, pinLevel, frameVars, result, crc,
                   stop, ret>>

\* _serial.readBytes(result, header.length) == header.length
ReadPayload(E) ==
    /\ pc = "readPayload"
    /\ \E p \in E.pats, s \in E.short :
        LET len == RespHeader(rhdr).length
            payload == Pattern(p, len)
            k == len - s
        IN  /\ result' = Ptr(Overwrite(result.mem, payload, k))
            /\ io' = Append(io, Ev("read", SubSeq(payload, 1, k), len))
            /\ IF k = len THEN pc' = "readCrc" /\ rc' = rc ELSE Fail
    /\ UNCHANGED <<pureVars, clockVars, prev, prevAt, cfgVars, pinLevel, frameVars, crc, stop,
                   rhdr, ret>>

\* the payload of the response, as received
Received(h, res) == IF h.length = 0 THEN <<>> ELSE SubSeq(res.mem, 1, h.length)

\* _serial.readBytes((uint8_t *)&crc, sizeof(crc)) == sizeof(crc)
ReadCrc(E) ==
    /\ pc = "readCrc"
    /\ \E kind \in E.crcs, k \in E.crcCounts :
        LET h == RespHeader(rhdr)
            field == Bytes16(CrcField(kind, DeviceCrc(h.returncode, Received(h, result))))
        IN  /\ crc' = Value16(Overwrite(Bytes16(crc), field, k))
            /\ io' = Append(io, Ev("read", SubSeq(field, 1, k), 2))
            /\ IF k = 2 THEN pc' = "readStop" /\ rc' = rc ELSE Fail
    /\ UNCHANGED <<pureVars, clockVars, prev, prevAt, cfgVars, pinLevel, frameVars, result, stop,
                   rhdr, ret>>

\* _serial.readBytes(&stop, sizeof(stop)) == sizeof(stop)
ReadStop(E) ==
    /\ pc = "readStop"
    /\ \E s \in E.stops, k \in E.stopCounts :
        /\ stop' = IF k = 1 THEN s ELSE stop
        /\ io' = Append(io, Ev("read", SubSeq(<<s>>, 1, k), 1))
        /\ IF k = 1 THEN pc' = "check" /\ rc' = rc ELSE Fail
    /\ UNCHANGED <<pureVars, clockVars, prev, prevAt, cfgVars, pinLevel, frameVars, result, crc,
                   rhdr, ret>>

AcceptsAnyStatus(h, res, c) == isValid(h, res, c)

\* && isValid(header, result, crc) && header.returncode == 0;
Accepts(h, res, c) == isValid(h, res, c) /\ h.returncode = 0

Check(E) ==
    /\ pc = "check"
    /\ rc' = Accepts(RespHeader(rhdr), result, crc)
    /\ pc' = "observe"
    /\ UNCHANGED <<pureVars, clockVars, prev, prevAt, cfgVars, pinLevel, frameVars, result, crc,
                   stop, rhdr, io, ret>>

\* the frame handed to _serial_cb: header, header.length bytes copied from
\* result, crc, stop.  fill stands for what a copy outside the buffer yields.
ObservedFrame(hm, res, c, s, fill) ==
    hm \o [i \in 1..RespHeader(hm).length |->
              IF res.ok /\ i <= Len(res.mem) THEN res.mem[i] ELSE fill]
       \o Bytes16(c) \o <<s>>

\* the memcpy from result stays inside the caller's buffer
CopyInBounds(hm, res) ==
    RespHeader(hm).length = 0 \/ (res.ok /\ RespHeader(hm).length <= Len(res.mem))

\* if( _serial_cb ) { malloc, memcpy x 4, _serial_cb(...), free }
\* A copy from a null result or past the end of the buffer is undefined: the
\* program stops, or the copy yields bytes that are not the buffer's.
Observe(E) ==
    /\ pc = "observe"
    /\ IF _serial_cb[self]
       THEN IF CopyInBounds(rhdr, result)
            THEN /\ io' = Append(io, Ev("cb", ObservedFrame(rhdr, result, crc, stop, 0),
                                       Len(ObservedFrame(rhdr, result, crc, stop, 0))))
                 /\ pc' = "complete"
            ELSE \/ /\ pc' = "crashed"
                    /\ io' = io
                 \/ \E g \in E.garbage :
                      /\ io' = Append(io, Ev("cb", ObservedFrame(rhdr, result, crc, stop, g),
                                            Len(ObservedFrame(rhdr, result, crc, stop, g))))
                      /\ pc' = "complete"
       ELSE /\ io' = io
            /\ pc' = "complete"
    /\ UNCHANGED <<pureVars, clockVars, prev, prevAt, cfgVars, pinLevel, frameVars, result, crc,
                   stop, rc, rhdr, ret>>

CompleteOnSuccess(E) ==
    /\ pc = "complete"
    /\ prev' = IF rc THEN now ELSE prev
    /\ prevAt' = IF rc THEN time ELSE prevAt
    /\ pc' = "return"
    /\ UNCHANGED <<pureVars, clockVars, cfgVars, pinLevel, frameVars, result, crc, stop, rc, rhdr,
                   io, ret>>

\* *_prev = millis();
Complete(E) ==
    /\ pc = "complete"
    /\ prev' = now
    /\ prevAt' = time
    /\ pc' = "return"
    /\ UNCHANGED <<pureVars, clockVars, cfgVars, pinLevel, frameVars, result, crc, stop, rc, rhdr,
                   io, ret>>

\* return rc;  and what the public operation does with its record afterwards
Decoded(o, res) ==
    CASE o = "getStatus" -> Ptr(decodeStatus(res.mem))
      [] o = "getCells"  -> Ptr(decodeCells(res.mem))
      [] OTHER           -> res

Return(E) ==
    /\ pc = "return"
    /\ result' = Decoded(op, result)
    /\ ret' = IF rc THEN "true" ELSE "false"
    /\ pc' = "idle"
    /\ UNCHANGED <<pureVars, clockVars, prev, prevAt, cfgVars, pinLevel, frameVars, crc, stop, rc,
                   rhdr, io>>

-----------------------------------------------------------------------------

NextEnv(E) ==
    \/ Tick(E)
    \/ setSerialCb(E)
    \/ begin(E)
    \/ execute(E)
    \/ getStatus(E)
    \/ getCells(E)
    \/ getHardware(E)
    \/ setMosfetStatus(E)
    \/ PrepareCmd(E)
    \/ Pace(E)
    \/ DirTx(E)
    \/ Flush1(E)
    \/ Write(E)
    \/ Flush2(E)
    \/ DirRx(E)
    \/ ReadHeader(E)
    \/ ReadPayload(E)
    \/ ReadCrc(E)
    \/ ReadStop(E)
    \/ Check(E)
    \/ Observe(E)
    \/ Complete(E)
    \/ Return(E)

Init == InitEnv(DataEnv)
Next == NextEnv(DataEnv)
Spec == Init /\ [][Next]_vars

InitPacing == InitEnv(PacingEnv)
NextPacing == NextEnv(PacingEnv)
SpecPacing == InitPacing /\ [][NextPacing]_vars

InitPin == InitEnv(PinEnv)
NextPin == NextEnv(PinEnv)
SpecPin == InitPin /\ [][NextPin]_vars

-----------------------------------------------------------------------------
(* Direct calls of the functions that do not touch the transport *)

mainVars == <<clockVars, prev, prevAt, cfgVars, pinLevel, pc, self, op, header, command,
              data0, arg, result, crc, stop, rc, rhdr, io, ret>>

\* const char *balance( const Status_t &data )
balance ==
    \E data \in StatusRecords :
        /\ pc = "idle"
        /\ calls < MaxBalanceCalls
        /\ calls' = calls + 1
        /\ balanceStr' = balanceBuffer(balanceStr, data)
        /\ pure' = [NoCall EXCEPT !.fn = "balance", !.status = data]
        /\ UNCHANGED mainVars

\* uint16_t genCrc( uint8_t byte, uint8_t len, uint8_t *data )
GenCrc ==
    \E byte \in {0, 1, 165, 255}, len \in 0..MaxGenLen :
      \E data \in {NULL} \cup {Ptr(Pattern(p, len)) : p \in {"zero", "ramp", "ff"}} :
        /\ pc = "idle"
        /\ pure' = [NoCall EXCEPT !.fn = "genCrc", !.byte = byte, !.len = len,
                                  !.data = data, !.crc = genCrc(byte, len, data)]
        /\ UNCHANGED <<mainVars, calls, balanceStr>>

InitBalance == InitEnv(DataEnv)
NextBalance == balance
SpecBalance == InitBalance /\ [][NextBalance]_vars

InitCrc == InitEnv(DataEnv)
NextCrc == GenCrc
SpecCrc == InitCrc /\ [][NextCrc]_vars

-----------------------------------------------------------------------------
(* Properties *)

ReadEvents == SelectSeq(io, LAMBDA e : e.k = "read")
WriteEvents0 == SelectSeq(io, LAMBDA e : e.k = "write")
CbEvents == SelectSeq(io, LAMBDA e : e.k = "cb")
DelayEvents == SelectSeq(io, LAMBDA e : e.k = "delay")

RECURSIVE BytesOf(_)
BytesOf(evs) == IF evs = <<>> THEN <<>> ELSE Head(evs).b \o BytesOf(Tail(evs))

\* every byte the transport delivered in this call, in order
RxBytes == BytesOf(ReadEvents)

\* the four writes of the request completed in full
RequestSent == Len(WriteEvents0) = 4 /\ \A i \in 1..4 : Len(WriteEvents0[i].b) = WriteEvents0[i].n

\* header, declared payload, checksum and stop byte were all delivered
FrameComplete == Len(ReadEvents) >= 3 /\ Len(RxBytes) = rhdr[3] + 6

\* the payload bytes the transport delivered
RxPayload == IF Len(ReadEvents) >= 2 /\ rhdr[3] > 0 THEN ReadEvents[2].b ELSE <<>>

\* execute has computed its return value
Decided == pc \in {"observe", "complete", "return"}

\* the request of the running call passes prepareCmd
Encoded == prepareCmd(header, command).ok

\* a complete response with valid markers and the protocol checksum
WellFormed ==
    /\ FrameComplete
    /\ rhdr[1] = START
    /\ rhdr[3] <= MaxResponseLen
    /\ stop = STOP
    /\ crc = DeviceCrc(rhdr[2], Received(RespHeader(rhdr), result))

Int16(v) == IF v >= 32768 THEN v - 65536 ELSE v

\* C1: the first write of a call happens no earlier than the time *_prev was
\* recorded by the previous transaction plus the caller's command delay, and
\* a call made before the delay has elapsed sleeps at least the remainder
C1_PacingFloor ==
    /\ [](pc \in {"write", "flush2"} /\ prevAt >= 0 => time >= prevAt + _delay[self])
    /\ [][pc = "pace" /\ pc' = "dirTx" /\ prevAt >= 0 /\ time - prevAt < _delay[self]
            => time' - time >= _delay[self] - (time - prevAt)]_vars

C1_Witness ==
    /\ pc = "write"
    /\ prevAt >= 0
    /\ calls = 2
    /\ \E i \in 1..Len(DelayEvents) :
           DelayEvents[i].n > 0 /\ DelayEvents[i].n < _delay[self]

\* C2 as claimed: every call to execute, whatever its outcome (an encoding
\* error included), has set *_prev to the clock value when it returns
C2_Original == pc = "return" => prev = now

\* C2 as amended: every call that gets past request encoding has set *_prev
\* to the clock value when it returns, whatever its outcome; a call rejected
\* at request encoding returns without writing *_prev
C2_TimestampRecorded ==
    /\ [](pc = "return" /\ Encoded => prev = now /\ prevAt = time)
    /\ [][pc = "prepare" /\ pc' = "return" => ~Encoded /\ prev' = prev]_vars

C2_Witness ==
    /\ pc = "return"
    /\ Encoded
    /\ ~rc
    /\ FrameComplete
    /\ time > 0
    /\ prev = now

\* C3: a complete well-formed response with status 0 and any declared length
\* 0..64, received into a supplied result buffer, makes execute return true
C3_AcceptsWellFormed ==
    (Decided /\ RequestSent /\ result.ok /\ WellFormed /\ rhdr[2] = 0) => rc

\* C4: execute returns true only if the received checksum field equals the
\* protocol checksum of the received status, length and payload
C4_Integrity ==
    (Decided /\ rc) => crc = DeviceCrc(rhdr[2], Received(RespHeader(rhdr), result))

\* C5: a response whose stop byte is not 0x77 makes execute return false
C5_StopMarker == (Decided /\ FrameComplete /\ stop # STOP) => ~rc

\* C6: a request with length >= 31, or with length > 0 and a null payload,
\* has checksum 0 and makes execute return false with no flush, write, read,
\* pin change, sleep or observer call
C6_EncodingError ==
    (pc # "prepare" /\ op # "none"
       /\ (header.length >= 31 \/ (header.length > 0 /\ ~command.ok)))
    => /\ genRequestCrc(header, command) = 0
       /\ io = <<>>
       /\ ~rc
       /\ pc \in {"return", "idle"}
       /\ pc = "idle" => ret = "false"

C6_Witness ==
    /\ pc = "idle"
    /\ ret = "false"
    /\ header.length >= 31
    /\ command.ok
    /\ _dir_pin[self] >= 0
    /\ _serial_cb[self]
    /\ io = <<>>

\* C7: with an observer configured, a call whose request was sent invokes it
\* exactly once, with exactly the bytes the transport delivered in this call
C7_ObserverGetsReceivedBytes ==
    (pc = "complete" /\ _serial_cb[self] /\ RequestSent)
    => /\ Len(CbEvents) = 1
       /\ CbEvents[1].b = RxBytes

\* C8: when getStatus or getCells fails, every byte of the caller's record
\* that the transport did not overwrite is as it was before the call
C8_NoDecodeOnFailure ==
    (pc = "idle" /\ ret = "false" /\ op \in {"getStatus", "getCells"})
    => \A i \in 1..Len(data0) : i > Len(RxPayload) => result.mem[i] = data0[i]

\* C9: a complete response with valid markers, declared length <= 64, matching
\* checksum and a nonzero status makes execute return false
C9_DeviceError ==
    /\ (Decided /\ WellFormed /\ rhdr[2] # 0) => ~rc
    /\ (pc = "idle" /\ ret # "none" /\ WellFormed /\ rhdr[2] # 0) => ret = "false"

C9_Witness ==
    /\ pc = "idle"
    /\ ret = "false"
    /\ WellFormed
    /\ rhdr[2] # 0
    /\ rhdr[3] > 0
    /\ isValid(RespHeader(rhdr), result, crc)

\* C10: after getStatus returns true, every two-byte field the payload
\* carries holds the big-endian value of its wire bytes (current as signed
\* 16 bit), and every single-byte field holds its wire byte
C10_StatusDecode ==
    (pc = "idle" /\ op = "getStatus" /\ ret = "true")
    => /\ \A k \in 1..Len(StatusWords) :
            LET off == StatusWords[k]
                field == Value16(<<result.mem[off + 1], result.mem[off + 2]>>)
            IN  off + 2 <= Len(RxPayload)
                => /\ field = 256 * RxPayload[off + 1] + RxPayload[off + 2]
                   /\ Int16(field) = Int16(256 * RxPayload[off + 1] + RxPayload[off + 2])
       /\ \A k \in 1..Len(StatusBytes) :
            StatusBytes[k] + 1 <= Len(RxPayload)
                => result.mem[StatusBytes[k] + 1] = RxPayload[StatusBytes[k] + 1]

C10_Witness ==
    /\ pc = "idle"
    /\ op = "getStatus"
    /\ ret = "true"
    /\ Len(RxPayload) = 23
    /\ RxPayload[1] = 11 /\ RxPayload[2] = 184
    /\ Value16(<<result.mem[1], result.mem[2]>>) = 3000

\* bit i of the 32-bit value balanceHigh << 16 | balanceLow
Bit32(hi, lo, i) == IF i < 16 THEN (lo \div 2^i) % 2 ELSE (hi \div 2^(i - 16)) % 2

\* C11: balance returns a string of exactly min(cells, 32) characters, each
\* '0' or '1', whose character i is '1' exactly when bit i of
\* balanceHigh << 16 | balanceLow is set; cells = 4, balanceLow = 0b0101,
\* balanceHigh = 0 gives "1010"
C11_BalanceString ==
    pure.fn = "balance"
    => LET d == pure.status
           n == IF d.cells < 32 THEN d.cells ELSE 32
           s == CStr(balanceStr)
       IN  /\ Len(s) = n
           /\ \A i \in 0..(n - 1) :
                /\ s[i + 1] \in {48, 49}
                /\ s[i + 1] = 49 <=> Bit32(d.balanceHigh, d.balanceLow, i) = 1
           /\ (d.cells = 4 /\ d.balanceLow = 5 /\ d.balanceHigh = 0) => s = <<49, 48, 49, 48>>

C11_Witness ==
    /\ pure.fn = "balance"
    /\ pure.status = [cells |-> 4, balanceLow |-> 5, balanceHigh |-> 0]
    /\ calls = 2
    /\ balanceStr[6] = 49
    /\ CStr(balanceStr) = <<49, 48, 49, 48>>

\* C12: for length < 31 and a payload of that many bytes (non-null when
\* length > 0) genCrc returns the byte-swap of (0 - seed - length - sum of the
\* payload bytes) mod 2^16; for length >= 31, or length > 0 with a null
\* payload, it returns 0
C12_GenCrc ==
    pure.fn = "genCrc"
    => IF pure.len < 31 /\ (pure.len = 0 \/ pure.data.ok)
       THEN LET v == (65536 - pure.byte - pure.len
                        - SumBytes(pure.data.mem, 1, pure.len)) % 65536
            IN  pure.crc = (v % 256) * 256 + (v \div 256)
       ELSE pure.crc = 0

C12_Witness ==
    /\ pure.fn = "genCrc"
    /\ pure.byte = 165
    /\ pure.len = 30
    /\ pure.data = Ptr(Pattern("ff", 30))
    /\ pure.crc = (57691 % 256) * 256 + (57691 \div 256)

PinEvents == SelectSeq(io, LAMBDA e : e.k = "pin")
IsPin(e, level) == e.k = "pin" /\ e.n = level

\* the running call is past the statement that sets the pin back to receive
PastDirRx == pc \in {"readHeader", "readPayload", "readCrc", "readStop", "check", "observe",
                     "complete", "return", "crashed"}

\* C13: with a direction pin configured, every call that gets past request
\* encoding sets the pin HIGH before the first write, and LOW after the last
\* write and the flush that follows it and before any read; with no pin
\* configured no pin write happens
C13_DirectionOrder ==
    (pc # "idle" /\ op # "none")
    => IF _dir_pin[self] >= 0
       THEN /\ \A i \in 1..Len(io) :
                 io[i].k = "write"
                 => /\ \E j \in 1..(i - 1) : IsPin(io[j], 1)
                    /\ \A j \in 1..(i - 1) : ~IsPin(io[j], 0)
            /\ \A i \in 1..Len(io) :
                 io[i].k = "read"
                 => \E j \in 2..(i - 1) :
                        /\ IsPin(io[j], 0)
                        /\ io[j - 1].k = "flush"
                        /\ \E w \in 1..(j - 2) : io[w].k = "write"
                        /\ \A w \in j..Len(io) : io[w].k # "write"
            /\ (PastDirRx /\ Encoded)
               => /\ Len(PinEvents) = 2
                  /\ IsPin(PinEvents[1], 1)
                  /\ IsPin(PinEvents[2], 0)
       ELSE PinEvents = <<>>

C13_Witness ==
    /\ pc = "return"
    /\ _dir_pin[self] >= 0
    /\ rc
    /\ Len(ReadEvents) = 4
    /\ Len(PinEvents) = 2

FlushEvents == SelectSeq(io, LAMBDA e : e.k = "flush")

\* the transport operations of the call, in order
TransportOps == SelectSeq(io, LAMBDA e : e.k \in {"flush", "write", "read"})

\* the request frame of the running call, byte by byte
RequestFrame ==
    <<START, header.command, header.code, header.length>>
    \o (IF header.length = 0 THEN <<>> ELSE SubSeq(command.mem, 1, header.length))
    \o Bytes16(genRequestCrc(header, command))
    \o <<STOP>>

\* some write of the call was accepted only in part
ShortWrite == \E i \in 1..Len(WriteEvents0) : Len(WriteEvents0[i].b) < WriteEvents0[i].n

\* the running call is past the flush that follows the writes
PastFlush2 == pc = "dirRx" \/ PastDirRx

\* C14: a call that gets past request encoding flushes, writes the request,
\* flushes, then reads; the bytes written are 0xDD, opcode, register, length,
\* the payload, the two checksum bytes and 0x77; after a short write nothing
\* more is written, nothing is read and the call returns false
C14_TransmitSequence ==
    (PastFlush2 /\ Encoded)
    => LET ops == TransportOps
           nw == Len(WriteEvents0)
       IN  /\ Len(FlushEvents) = 2
           /\ nw >= 1
           /\ ops[1].k = "flush"
           /\ \A i \in 2..(nw + 1) : ops[i].k = "write"
           /\ ops[nw + 2].k = "flush"
           /\ \A i \in (nw + 3)..Len(ops) : ops[i].k = "read"
           /\ BytesOf(WriteEvents0) = SubSeq(RequestFrame, 1, Len(BytesOf(WriteEvents0)))
           /\ ~ShortWrite => BytesOf(WriteEvents0) = RequestFrame
           /\ ShortWrite
              => /\ Len(WriteEvents0[nw].b) < WriteEvents0[nw].n
                 /\ \A i \in 1..(nw - 1) : Len(WriteEvents0[i].b) = WriteEvents0[i].n
                 /\ ReadEvents = <<>>
                 /\ ~rc

C14_Witness ==
    /\ pc = "return"
    /\ op = "setMosfetStatus"
    /\ ~ShortWrite
    /\ SubSeq(BytesOf(WriteEvents0), 1, 6) = <<221, 90, 225, 2, 0, 1>>
    /\ BytesOf(WriteEvents0)[9] = 119
    /\ Len(ReadEvents) = 3
    /\ rc

\* the header read is done and the header is rejected: fewer than 3 bytes,
\* wrong start byte, declared length above 64, or a payload with no buffer
BadHeader ==
    /\ Len(ReadEvents) >= 1
    /\ \/ Len(ReadEvents[1].b) < 3
       \/ rhdr[1] # START
       \/ rhdr[3] > MaxResponseLen
       \/ (rhdr[3] > 0 /\ ~result.ok)

\* C15: a rejected response header makes execute return false without
\* reading the payload, the checksum or the stop byte and without writing
\* into the result buffer
C15_EarlyHeaderRejection ==
    BadHeader
    => /\ ~rc
       /\ Len(ReadEvents) = 1
       /\ pc \in {"observe", "complete", "return", "crashed"} => result.mem = data0
       /\ pc = "idle" => ret = "false"

C15_Witness ==
    /\ pc = "idle"
    /\ ret = "false"
    /\ Len(ReadEvents) = 1
    /\ Len(ReadEvents[1].b) = 3
    /\ rhdr = <<START, 0, 65>>
    /\ result.ok
    /\ result.mem = data0

\* bit k of a byte
BitOf(x, k) == (x \div 2^k) % 2

\* C16: setMosfetStatus(s) issues a WRITE request to the MOSFET register with
\* length 2 and payload {0, ~s & MOSFET_BOTH}: no bit outside MOSFET_BOTH is
\* set and each control bit is the inverse of that bit of s
C16_MosfetEncoding ==
    op = "setMosfetStatus"
    => /\ header.command = WRITE
       /\ header.code = MOSFET
       /\ header.length = 2
       /\ command.ok
       /\ Len(command.mem) = 2
       /\ command.mem[1] = 0
       /\ command.mem[2] <= MOSFET_BOTH
       /\ \A k \in {0, 1} : BitOf(command.mem[2], k) = 1 - BitOf(arg, k)
       /\ (PastFlush2 /\ ~ShortWrite)
          => /\ WriteEvents0[1].b = <<START, WRITE, MOSFET, 2>>
             /\ WriteEvents0[2].b = command.mem

C16_Witness ==
    /\ op = "setMosfetStatus"
    /\ arg = 1
    /\ pc = "return"
    /\ ~ShortWrite
    /\ WriteEvents0[2].b = <<0, 2>>

\* the observer hook has made its copies
HookRan == pc = "crashed" \/ (pc = "complete" /\ CbEvents # <<>>)

\* C17: the observer hook copies header.length payload bytes from the result
\* buffer only if the buffer is non-null and header.length <= 64
C17_ObserverMemorySafe ==
    (HookRan /\ rhdr[3] > 0) => (result.ok /\ rhdr[3] <= MaxResponseLen)

\* C18: with a direction pin configured the pin is LOW after begin and
\* whenever execute returns, on every path; it is HIGH only from the start
\* of the transmit step to the end of the flush that follows the writes
C18_PinLevels ==
    _dir_pin[self] >= 0
    => /\ pinLevel = 1 => pc \in {"flush1", "write", "flush2", "dirRx"}
       /\ pc \in {"idle", "return"} => pinLevel = 0

C18_Witness ==
    /\ pc = "return"
    /\ _dir_pin[self] >= 0
    /\ pinLevel = 0
    /\ ShortWrite
    /\ Len(PinEvents) = 2

\* C19: the pacing sleep is delay - elapsed milliseconds when
\* elapsed = (now - timestamp) mod 2^32 is at most the delay, and there is no
\* sleep when elapsed exceeds the delay, also when the clock has wrapped
\* since the timestamp was recorded
C19_PacingSleep ==
    [][(pc = "pace" /\ pc' = "dirTx")
        => LET elapsed == Sub32(now, prev)
               d == _delay[self]
           IN  IF elapsed[1] = 0 /\ elapsed[2] <= d
               THEN /\ time' - time = d - elapsed[2]
                    /\ now' = Add32(now, U32(d - elapsed[2]))
                    /\ io' = Append(io, Ev("delay", <<>>, d - elapsed[2]))
               ELSE /\ time' = time
                    /\ now' = now
                    /\ io' = io]_vars

C19_Witness ==
    /\ pc = "dirTx"
    /\ Len(DelayEvents) = 1
    /\ DelayEvents[1].n > 0
    /\ DelayEvents[1].n < _delay[self]
    /\ ~Le32(prev, now)

PublicOps == {"getStatus", "getCells", "getHardware", "setMosfetStatus"}

\* seed byte, length and payload bytes of the running call's request add up to 0
ZeroSum ==
    /\ header.length < 31
    /\ header.length = 0 \/ command.ok
    /\ header.command + header.length + SumBytes(command.mem, 1, header.length) = 0

\* C20: the request of every public operation has a nonzero checksum, passes
\* prepareCmd and is transmitted; a generic execute call with a valid request
\* whose seed byte, length and payload bytes sum to 0 is refused
C20_SentinelNeverRejectsPublicOps ==
    /\ (op \in PublicOps /\ pc # "prepare")
       => /\ genRequestCrc(header, command) # 0
          /\ pc = "pace" => crc # 0
          /\ pc \in {"return", "idle"} => Len(WriteEvents0) >= 1
    /\ (op = "execute" /\ ZeroSum /\ pc # "prepare")
       => /\ crc = 0
          /\ io = <<>>
          /\ pc \in {"return", "idle"}
          /\ pc = "idle" => ret = "false"

C20_Witness ==
    /\ op = "getCells"
    /\ pc = "return"
    /\ genRequestCrc(header, command) # 0
    /\ ~ShortWrite
    /\ BytesOf(WriteEvents0) = RequestFrame

====
